---- MODULE Spec2Model ----
(***************************************************************************)
(* Reminder scheduling engine of reminders-bun: the reminder store, the    *)
(* polling tick (checkReminders), the cleanup sweep                        *)
(* (cleanupStaleReminders), the two QStash webhooks and the CRUD routes    *)
(* that feed the store.                                                    *)
(*                                                                         *)
(* Instants are milliseconds since an arbitrary origin.  An optional       *)
(* value (a nullable column) is the empty sequence when null and a         *)
(* one-element sequence when set.                                          *)
(***************************************************************************)
EXTENDS Integers, Sequences, FiniteSets, Bags, TLC

\* ------------------------------------------------------------------ bounds
MaxId == 2        \* reminders ever created (AUTOINCREMENT ids 1..MaxId)
MaxHooks == 1     \* reminder-alert webhook handlers in flight at once
MaxTicks == 2     \* polling ticks in flight at once
MaxSent == 2      \* the per-reminder dispatch counter saturates here
MaxReqs == 1      \* PUT, DELETE and webhook requests served
MaxBulk == 2      \* ids in the ids parameter of a bulk delete

\* ------------------------------------------------------- program constants
SCHEDULER_INTERVAL == 3000
STALE_THRESHOLD_MS == 60 * 60 * 1000
MIN_ALERT_MS == 3000

\* --------------------------------------------------------------- optionals
NULL == <<>>
Some(v) == <<v>>
IsSet(o) == o # NULL
Val(o) == o[1]

Min(a, b) == IF a < b THEN a ELSE b

Ids == 1 .. MaxId

\* The instants at which the environment lets something happen.
Instants ==
  { 0, 57000, 59000, 117000, 3717000 }

\* ------------------------------------------------------------ request bodies
\* TCreateReminderInput values the CRUD routes are called with.  is_active is
\* an optional boolean of the body: NULL when the body omits it.
Body(title, date, contacts, alerts, rec, cron, start, end, active) ==
  [ title |-> title, date |-> date, reminders |-> contacts, alerts |-> alerts,
    is_recurring |-> rec, recurrence |-> cron, start_date |-> start,
    end_date |-> end, is_active |-> active ]

EveryMinute == "* * * * *"
Garbage == "not-a-cron"

Bodies ==
  { Body("multi",    60000, <<"email", "sms", "email">>, <<3000, 4000>>, FALSE, NULL, NULL, NULL, NULL),
    Body("silent",   60000, <<"sms">>,                 <<4000>>,       FALSE, NULL, NULL, NULL, NULL),
    Body("noAlerts", 60000, <<"email">>,               <<>>,           FALSE, NULL, NULL, NULL, NULL),
    Body("early",    60000, <<"sms">>,                 <<1000>>,       FALSE, NULL, NULL, NULL, NULL),
    Body("paused",   60000, <<"email">>,               <<3000>>,       FALSE, NULL, NULL, NULL, Some(FALSE)),
    Body("cron",     0,     <<"email">>,               <<3000>>,       TRUE,  Some(EveryMinute), Some(120000), NULL, NULL),
    Body("cronEnd",  0,     <<"email">>,               <<3000>>,       TRUE,  Some(EveryMinute), Some(0), Some(60000), NULL),
    Body("badCron",  0,     <<"email">>,               <<3000>>,       TRUE,  Some(Garbage), Some(0), NULL, NULL),
    Body("recNoCron", 0,    <<"email">>,               <<3000>>,       TRUE,  NULL, Some(0), NULL, NULL) }

\* --------------------------------------------------------------- the store
\* AlertSchema: the floor z.number().min(3000) puts on an alert's time.
AlertSchema(offsetMs) == offsetMs >= MIN_ALERT_MS

\* One row of table reminders; booleans are stored as 0/1.
NoRow == [ title |-> "<none>" ]

\* The reminders that are stored together: the titles of the bodies of one
\* family.
Families ==
  { { "multi", "cron", "cronEnd", "cronTwo" },
    { "noAlerts", "badCron", "silent" },
    { "multi", "paused", "recNoCron", "early" },
    { "twoMail", "twoSms", "oneMail", "silent" } }

\* Body r may be stored next to the rows of the store other than row id.
Fits(store, id, r) ==
  \E F \in Families :
    { store[i].title : i \in { j \in DOMAIN store : j # id /\ store[j] # NoRow } }
      \cup { r.title } \subseteq F

\* Insert binding $is_active as r.is_active ? 1 : 0.
InsertInactiveByDefault(b) ==
  [ title |-> b.title, date |-> b.date, reminders |-> b.reminders,
    alerts |-> b.alerts,
    is_recurring |-> IF b.is_recurring THEN 1 ELSE 0,
    recurrence |-> b.recurrence, start_date |-> b.start_date,
    end_date |-> b.end_date, last_alert_time |-> NULL,
    is_active |-> IF b.is_active = Some(TRUE) THEN 1 ELSE 0 ]

Insert(b) ==
  [ title |-> b.title, date |-> b.date, reminders |-> b.reminders,
    alerts |-> b.alerts,
    is_recurring |-> IF b.is_recurring THEN 1 ELSE 0,
    recurrence |-> b.recurrence, start_date |-> b.start_date,
    end_date |-> b.end_date, last_alert_time |-> NULL,
    is_active |-> IF b.is_active = Some(FALSE) THEN 0 ELSE 1 ]

\* The UPDATE of PUT /reminders/:id also setting last_alert_time = NULL.
UpdateRowClearingAck(row, b) ==
  IF row = NoRow THEN row ELSE
  [ title |-> b.title, date |-> b.date, reminders |-> b.reminders,
    alerts |-> b.alerts,
    is_recurring |-> IF b.is_recurring THEN 1 ELSE 0,
    recurrence |-> b.recurrence, start_date |-> b.start_date,
    end_date |-> b.end_date, last_alert_time |-> NULL,
    is_active |-> IF b.is_active = Some(FALSE) THEN 0 ELSE 1 ]

UpdateRow(row, b) ==
  IF row = NoRow THEN row ELSE
  [ title |-> b.title, date |-> b.date, reminders |-> b.reminders,
    alerts |-> b.alerts,
    is_recurring |-> IF b.is_recurring THEN 1 ELSE 0,
    recurrence |-> b.recurrence, start_date |-> b.start_date,
    end_date |-> b.end_date, last_alert_time |-> row.last_alert_time,
    is_active |-> IF b.is_active = Some(FALSE) THEN 0 ELSE 1 ]

\* transformRow reading is_active as "the column is not null".
transformRowNotNull(row) ==
  [ row EXCEPT !.is_recurring = (row.is_recurring # 0),
               !.is_active = TRUE ]

\* The DTO transformation: 0/1 columns become booleans.
transformRow(row) ==
  [ row EXCEPT !.is_recurring = (row.is_recurring # 0),
               !.is_active = (row.is_active # 0) ]

\* updateLastAlertTime that also reactivates:
\* UPDATE reminders SET last_alert_time = ?, is_active = 1 WHERE id = ?
updateLastAlertTimeReactivating(db, id, time) ==
  IF db[id] = NoRow THEN db
  ELSE [ db EXCEPT ![id].last_alert_time = Some(time), ![id].is_active = 1 ]

\* updateLastAlertTime as INSERT OR REPLACE: a row is written whether or not
\* the table holds one with that id.
updateLastAlertTimeUpserting(db, id, time) ==
  IF db[id] = NoRow
  THEN [ db EXCEPT ![id] =
           [ title |-> "", date |-> 0, alerts |-> << >>, reminders |-> << >>,
             is_recurring |-> 0, recurrence |-> NULL, start_date |-> NULL,
             end_date |-> NULL, is_active |-> 1, last_alert_time |-> Some(time) ] ]
  ELSE [ db EXCEPT ![id].last_alert_time = Some(time) ]

\* UPDATE reminders SET last_alert_time = ? WHERE id = ?
updateLastAlertTime(db, id, time) ==
  IF db[id] = NoRow THEN db
  ELSE [ db EXCEPT ![id].last_alert_time = Some(time) ]

\* deactivateReminder as DELETE FROM reminders WHERE id = ?
deactivateByDelete(db, id) == [ db EXCEPT ![id] = NoRow ]

\* deactivateReminder that also clears the acknowledgement:
\* UPDATE reminders SET is_active = 0, last_alert_time = NULL WHERE id = ?
deactivateAndClear(db, id) ==
  IF db[id] = NoRow THEN db
  ELSE [ db EXCEPT ![id].is_active = 0, ![id].last_alert_time = NULL ]

\* deactivateReminder flipping the flag:
\* UPDATE reminders SET is_active = 1 - is_active WHERE id = ?
deactivateByToggle(db, id) ==
  IF db[id] = NoRow THEN db
  ELSE [ db EXCEPT ![id].is_active = 1 - @ ]

\* UPDATE reminders SET is_active = 0 WHERE id = ?
deactivateReminder(db, id) ==
  IF db[id] = NoRow THEN db
  ELSE [ db EXCEPT ![id].is_active = 0 ]

\* findById selecting with WHERE id <= ? ORDER BY id DESC LIMIT 1.
findByIdUpTo(db, id) ==
  LET rows == { j \in DOMAIN db : j <= id /\ db[j] # NoRow } IN
  IF rows = {} THEN NoRow
  ELSE transformRow(db[CHOOSE j \in rows : \A k \in rows : k <= j])

\* SELECT * FROM reminders WHERE id = ?
findById(db, id) == IF db[id] = NoRow THEN NoRow ELSE transformRow(db[id])

\* deleteBulk reporting ids.length instead of result.changes.
deleteBulkCountingIds(store, ids) ==
  [ db |-> [ id \in DOMAIN store |->
               IF \E k \in DOMAIN ids : ids[k] = id THEN NoRow ELSE store[id] ],
    changes |-> Len(ids) ]

\* deleteBulk(ids): DELETE FROM reminders WHERE id IN (ids); the store
\* afterwards and result.changes, the number of rows removed.
deleteBulk(store, ids) ==
  IF Len(ids) = 0 THEN [ db |-> store, changes |-> 0 ]
  ELSE
    [ db |-> [ id \in DOMAIN store |->
                 IF \E k \in DOMAIN ids : ids[k] = id THEN NoRow ELSE store[id] ],
      changes |-> Cardinality({ id \in DOMAIN store :
                                  /\ store[id] # NoRow
                                  /\ \E k \in DOMAIN ids : ids[k] = id }) ]

\* SELECT * FROM reminders, transformed, in id order.
getReminders(db) == [ id \in Ids |-> findById(db, id) ]

\* ------------------------------------------------------- scheduler helpers
\* cron-parser: the period of the expressions the model uses; 0 when the
\* expression does not parse.
CronPeriod(expr) == IF expr = EveryMinute THEN 60 * 1000 ELSE 0

\* calculateNextEventTime reading an expression that does not parse as
\* "every minute" instead of returning null.
calculateNextEventTimeDefaulting(reminder, now) ==
  LET p == 60 * 1000 IN Some(((now \div p) + 1) * p)

\* cron_parse.parse(recurrence, {currentDate: now}).next(): the first
\* occurrence strictly after now, NULL when parsing throws.
calculateNextEventTime(reminder, now) ==
  LET p == CronPeriod(Val(reminder.recurrence)) IN
  IF p = 0 THEN NULL ELSE Some(((now \div p) + 1) * p)

\* shouldDeactivateOneTime without the stale rule.
shouldDeactivateOneTimeAlertedOnly(reminder, now) ==
  IsSet(reminder.last_alert_time)

\* shouldDeactivateOneTime without the already-alerted rule.
shouldDeactivateOneTimeStaleOnly(reminder, now) ==
  reminder.date < now - STALE_THRESHOLD_MS

shouldDeactivateOneTime(reminder, now) ==
  \/ IsSet(reminder.last_alert_time)
  \/ reminder.date < now - STALE_THRESHOLD_MS

shouldDeactivateRecurring(reminder, nextEventTime) ==
  /\ IsSet(reminder.end_date)
  /\ nextEventTime > Val(reminder.end_date)

\* AlertPasses with the window closed at its upper end: diff <= intervalMs.
AlertPassesClosedWindow(reminder, offsetMs, eventTime, now, intervalMs) ==
  LET alertTime == eventTime - offsetMs
      diff == now - alertTime
  IN /\ diff >= 0
     /\ diff <= intervalMs
     /\ ~ ( /\ reminder.is_recurring
            /\ IsSet(reminder.last_alert_time)
            /\ Val(reminder.last_alert_time) >= alertTime )

\* AlertPasses without the already-alerted test for recurring reminders.
AlertPassesWindowOnly(reminder, offsetMs, eventTime, now, intervalMs) ==
  LET alertTime == eventTime - offsetMs
      diff == now - alertTime
  IN diff >= 0 /\ diff < intervalMs

\* One alert of the reminder passes the window test and the recurring
\* already-alerted test.
AlertPasses(reminder, offsetMs, eventTime, now, intervalMs) ==
  LET alertTime == eventTime - offsetMs
      diff == now - alertTime
  IN /\ diff >= 0
     /\ diff < intervalMs
     /\ ~ ( /\ reminder.is_recurring
            /\ IsSet(reminder.last_alert_time)
            /\ Val(reminder.last_alert_time) >= alertTime )

\* The first alert, in list order, that passes: a sequence of length 0 or 1.
getAlertsToFire(reminder, eventTime, now, intervalMs) ==
  LET hits == { k \in 1 .. Len(reminder.alerts) :
                  AlertPasses(reminder, reminder.alerts[k], eventTime, now, intervalMs) }
  IN IF hits = {} THEN << >>
     ELSE << reminder.alerts[CHOOSE k \in hits : \A j \in hits : k <= j] >>

\* Indexes of the contacts a fire sends an email to, in list order.
EmailContacts(reminder) ==
  SelectSeq([ k \in 1 .. Len(reminder.reminders) |-> k ],
            LAMBDA k : reminder.reminders[k] = "email")

\* ---------------------------------------------------------------- state
VARIABLES
  db,         \* table reminders: id -> row, NoRow where no row has that id
  nextId,     \* the id AUTOINCREMENT assigns next
  clock,      \* Date.now()
  env,        \* process.env: NODE_ENV, the QStash signing key, USE_POLLING
  sinceTick,  \* time since setInterval last called checkReminders, up to the interval
  ticks,      \* the checkReminders calls suspended in a send
  ended,      \* the checkReminders call that returned in the last step, if one did
  hooks,      \* the reminder-alert handlers suspended in sendNotifications
  sent,       \* id -> fires that sent mail since CRUD last wrote the row
  reqs,       \* PUT, DELETE and webhook requests served so far
  resp,       \* the HTTP response of the last step, if it was a request
  alive       \* the server process is running

vars ==
  << db, nextId, clock, env, sinceTick, ticks, ended, hooks, sent, reqs, resp, alive >>

Ev(e, id, k) == [ e |-> e, id |-> id, k |-> k ]

Resp(status, body) == [ status |-> status, body |-> body ]

NoResp == Resp(0, << >>)

Bump(n) == Min(n + 1, MaxSent)

\* The deployments: production (NODE_ENV is not development) with
\* QSTASH_CURRENT_SIGNING_KEY configured and the polling timer started.
Envs ==
  { [ development |-> d, key |-> k, polling |-> p ] :
      d \in {FALSE}, k \in {TRUE}, p \in {TRUE} }

NoTick == [ st |-> "none", now |-> 0, snap |-> [ id \in Ids |-> NoRow ],
            log |-> << >>, active |-> {} ]

Init ==
  /\ db = [ id \in Ids |-> NoRow ]
  /\ nextId = 1
  /\ clock = 0
  /\ env \in Envs
  /\ sinceTick = 0
  /\ ticks = {}
  /\ ended = NoTick
  /\ hooks = EmptyBag
  /\ sent = [ id \in Ids |-> 0 ]
  /\ reqs = 0
  /\ resp = NoResp
  /\ alive = TRUE

\* Time passes.
Advance ==
  /\ \E t \in Instants :
       /\ t > clock
       /\ clock' = t
       /\ sinceTick' = Min(sinceTick + (t - clock), SCHEDULER_INTERVAL)
  /\ ended' = NoTick
  /\ resp' = NoResp
  /\ UNCHANGED << db, nextId, env, alive, ticks, hooks, sent, reqs >>

\* ------------------------------------------------------------ CRUD routes
\* POST /reminders on a table whose id is a plain INTEGER PRIMARY KEY: the
\* new row gets one more than the largest id stored.
createReminderRouteReusingIds(r) ==
  LET stored == { id \in Ids : db[id] # NoRow }
      newId == IF stored = {} THEN 1
               ELSE 1 + CHOOSE id \in stored : \A other \in stored : other <= id
  IN
  /\ newId <= MaxId
  /\ Fits(db, 0, r)
  /\ IF r.is_recurring /\ (~IsSet(r.recurrence) \/ ~IsSet(r.start_date))
     THEN /\ resp' = Resp(400, << "Recurring events must have recurrence string and start_date" >>)
          /\ UNCHANGED << db, nextId, sent >>
     ELSE /\ db' = [ db EXCEPT ![newId] = Insert(r) ]
          /\ nextId' = newId + 1
          /\ sent' = [ sent EXCEPT ![newId] = 0 ]
          /\ resp' = Resp(201, << newId >>)
  /\ ended' = NoTick
  /\ UNCHANGED << clock, env, alive, sinceTick, ticks, hooks, reqs >>

\* POST /reminders
createReminderRoute(r) ==
  /\ nextId <= MaxId
  /\ Fits(db, 0, r)
  /\ IF r.is_recurring /\ (~IsSet(r.recurrence) \/ ~IsSet(r.start_date))
     THEN /\ resp' = Resp(400, << "Recurring events must have recurrence string and start_date" >>)
          /\ UNCHANGED << db, nextId, sent >>
     ELSE /\ db' = [ db EXCEPT ![nextId] = Insert(r) ]
          /\ nextId' = nextId + 1
          /\ sent' = [ sent EXCEPT ![nextId] = 0 ]
          /\ resp' = Resp(201, << nextId >>)
  /\ ended' = NoTick
  /\ UNCHANGED << clock, env, alive, sinceTick, ticks, hooks, reqs >>

\* PUT /reminders/:id
updateReminderRoute(id, r) ==
  /\ Fits(db, id, r)
  /\ IF findById(db, id) = NoRow
     THEN /\ resp' = Resp(404, << "Reminder not found" >>)
          /\ UNCHANGED << db, sent >>
     ELSE /\ db' = [ db EXCEPT ![id] = UpdateRow(db[id], r) ]
          /\ sent' = [ sent EXCEPT ![id] = 0 ]
          /\ resp' = Resp(200, << id >>)
  /\ reqs < MaxReqs
  /\ reqs' = reqs + 1
  /\ ended' = NoTick
  /\ UNCHANGED << nextId, clock, env, alive, sinceTick, ticks, hooks >>

\* DELETE /reminders/:id
deleteReminderRoute(id) ==
  /\ db' = [ db EXCEPT ![id] = NoRow ]
  /\ resp' = Resp(200, << "Deleted" >>)
  /\ reqs < MaxReqs
  /\ reqs' = reqs + 1
  /\ ended' = NoTick
  /\ UNCHANGED << nextId, clock, env, alive, sinceTick, ticks, hooks, sent >>

\* The ids search parameter of DELETE /reminders/bulk: NULL when absent,
\* else the list of numbers it parses to.
BulkParams ==
  { NULL } \cup { Some(ids) : ids \in UNION { [ 1 .. n -> Ids ] : n \in 0 .. MaxBulk } }

\* DELETE /reminders/bulk?ids=...
deleteRemindersBulkRoute(idsParam) ==
  /\ IF ~IsSet(idsParam)
     THEN /\ resp' = Resp(500, << "fail" >>)
          /\ UNCHANGED db
     ELSE /\ db' = deleteBulk(db, Val(idsParam)).db
          /\ resp' = Resp(200, << "success" >>)
  /\ reqs < MaxReqs
  /\ reqs' = reqs + 1
  /\ ended' = NoTick
  /\ UNCHANGED << nextId, clock, env, alive, sinceTick, ticks, hooks, sent >>

\* ------------------------------------------------------- the polling tick
\* The alerts test of checkReminders letting every reminder through.
alertsEmptyNever(reminder) == FALSE

\* !reminder.alerts || reminder.alerts.length === 0
alertsEmpty(reminder) == Len(reminder.alerts) = 0

\* checkReminders from reminder i of its list on, up to the first send it
\* awaits or to the end of the list.  snap is the list getReminders()
\* returned when the call started, now the instant it captured then.
RECURSIVE RunTick(_, _, _, _, _)
RunTick(snap, now, i, store, log) ==
  IF i > MaxId THEN [ st |-> "done", i |-> i, db |-> store, log |-> log ]
  ELSE
    LET reminder == snap[i]
        skip == RunTick(snap, now, i + 1, store, log)
        deactivate ==
          RunTick(snap, now, i + 1, deactivateReminder(store, i),
                  Append(log, Ev("off", i, 0)))
        select(eventTime) ==
          IF Len(getAlertsToFire(reminder, eventTime, now, SCHEDULER_INTERVAL)) > 0
          THEN IF EmailContacts(reminder) # << >>
               THEN [ st |-> "sending", i |-> i, db |-> store,
                      log |-> Append(log, Ev("fire", i, 0)) ]
               ELSE RunTick(snap, now, i + 1, updateLastAlertTime(store, i, now),
                            log \o << Ev("fire", i, 0), Ev("ack", i, 0) >>)
          ELSE skip
    IN
    IF reminder = NoRow THEN skip
    ELSE IF ~reminder.is_active THEN skip
    ELSE IF alertsEmpty(reminder) THEN skip
    ELSE IF reminder.is_recurring /\ IsSet(reminder.recurrence)
    THEN LET nextEventTime == calculateNextEventTime(reminder, now) IN
         IF ~IsSet(nextEventTime) THEN skip
         ELSE IF shouldDeactivateRecurring(reminder, Val(nextEventTime))
         THEN deactivate
         ELSE select(Val(nextEventTime))
    ELSE IF shouldDeactivateOneTime(reminder, now) THEN deactivate
    ELSE select(reminder.date)

ActiveIds(store) == { id \in Ids : store[id] # NoRow /\ store[id].is_active # 0 }

\* The state after a checkReminders call ran from some reminder on with
\* result res: the call is suspended in a send, or it has returned.
TickRan(snap, now, res) ==
  /\ db' = res.db
  /\ IF res.st = "sending"
     THEN /\ ticks' = { t \in ticks : t.now # now }
                        \cup { [ now |-> now, snap |-> snap, i |-> res.i, log |-> res.log ] }
          /\ sent' = [ sent EXCEPT ![res.i] = Bump(@) ]
          /\ ended' = NoTick
     ELSE /\ ticks' = { t \in ticks : t.now # now }
          /\ ended' = [ st |-> "done", now |-> now, snap |-> snap,
                        log |-> res.log, active |-> ActiveIds(res.db) ]
          /\ UNCHANGED sent

\* setInterval(checkReminders, SCHEDULER_INTERVAL) calls checkReminders.
checkReminders ==
  /\ sinceTick >= SCHEDULER_INTERVAL
  /\ Cardinality(ticks) < MaxTicks
  /\ sinceTick' = 0
  /\ LET snap == getReminders(db) IN
     TickRan(snap, clock, RunTick(snap, clock, 1, db, << >>))
  /\ resp' = NoResp
  /\ UNCHANGED << nextId, clock, env, alive, hooks, reqs >>

\* How the sendEmail calls of one fire can settle: 0 when every call
\* resolves, k when the call for the k-th email contact rejects.
sendEmail(reminder) == 0 .. Len(EmailContacts(reminder))

\* Sends with the contact loop inside a loop over the reminder's alerts.
SendsPerAlert(reminder, i, failed) ==
  LET emails == EmailContacts(reminder)
      n == IF failed = 0 THEN Len(emails) ELSE failed
      once == [ k \in 1 .. n |-> Ev("send", i, emails[k]) ]
  IN IF failed = 0 /\ Len(reminder.alerts) > 1 THEN once \o once ELSE once

\* The sendEmail calls of one fire, for the contacts in list order: all of
\* them when none throws (failed = 0), or up to the one that throws.
Sends(reminder, i, failed) ==
  LET emails == EmailContacts(reminder)
      n == IF failed = 0 THEN Len(emails) ELSE failed
  IN [ k \in 1 .. n |-> Ev("send", i, emails[k]) ]

\* The sends a suspended checkReminders awaits settle: it acknowledges the
\* fire and goes on with its list, or the rejected send ends the call.
checkRemindersResume(t, failed) ==
  /\ t \in ticks
  /\ failed \in sendEmail(t.snap[t.i])
  /\ LET log == t.log \o Sends(t.snap[t.i], t.i, failed) IN
     IF failed = 0
     THEN LET acked == Append(log, Ev("ack", t.i, 0)) IN
          TickRan(t.snap, t.now,
                  RunTick(t.snap, t.now, t.i + 1,
                          updateLastAlertTime(db, t.i, t.now), acked))
     ELSE /\ ticks' = ticks \ { t }
          /\ ended' = [ st |-> "failed", now |-> t.now, snap |-> t.snap,
                        log |-> log, active |-> ActiveIds(db) ]
          /\ UNCHANGED << db, sent >>
  /\ resp' = NoResp
  /\ UNCHANGED << nextId, clock, env, alive, sinceTick, hooks, reqs >>

\* ------------------------------------------------------ the cleanup sweep
\* Whether cleanupStaleReminders deactivates an active reminder.
SweepDeactivates(reminder, now) ==
  IF reminder.is_recurring /\ IsSet(reminder.recurrence)
  THEN LET nextEventTime == calculateNextEventTime(reminder, now) IN
       /\ IsSet(nextEventTime)
       /\ shouldDeactivateRecurring(reminder, Val(nextEventTime))
  ELSE shouldDeactivateOneTime(reminder, now)

RECURSIVE DeactivateAll(_, _)
DeactivateAll(store, ids) ==
  IF ids = {} THEN store
  ELSE LET id == CHOOSE x \in ids : TRUE
       IN DeactivateAll(deactivateReminder(store, id), ids \ { id })

\* cleanupStaleReminders reading its list with findAll() instead of
\* findActive(): checked counts every stored reminder.
cleanupStaleRemindersFindAll(store, now) ==
  LET reminders == { id \in Ids : findById(store, id) # NoRow }
      stale == { id \in reminders : /\ findById(store, id).is_active
                                    /\ SweepDeactivates(findById(store, id), now) }
  IN [ db |-> DeactivateAll(store, stale),
       deactivated |-> Cardinality(stale),
       checked |-> Cardinality(reminders) ]

\* cleanupStaleReminders(): the store afterwards and the counts returned.
cleanupStaleReminders(store, now) ==
  LET reminders == { id \in Ids : findById(store, id) # NoRow
                                  /\ findById(store, id).is_active }
      stale == { id \in reminders : SweepDeactivates(findById(store, id), now) }
  IN [ db |-> DeactivateAll(store, stale),
       deactivated |-> Cardinality(stale),
       checked |-> Cardinality(reminders) ]

\* ----------------------------------------------------------- the webhooks
Signatures == { "none", "bad", "good" }

\* verifyQStashSignature: "none" is a request without the upstash-signature
\* header, "good" a signature receiver.verify accepts, "bad" one it rejects.
verifyQStashSignature(signature) ==
  IF env.development THEN TRUE
  ELSE IF signature = "none" \/ ~env.key THEN TRUE
  ELSE signature = "good"

\* POST /webhooks/cleanup
webhookCleanupRoute(signature) ==
  /\ IF ~verifyQStashSignature(signature)
     THEN /\ resp' = Resp(401, << "Invalid signature" >>)
          /\ UNCHANGED db
     ELSE LET result == cleanupStaleReminders(db, clock) IN
          /\ db' = result.db
          /\ resp' = Resp(200, << "ok", result.deactivated, result.checked >>)
  /\ reqs < MaxReqs
  /\ reqs' = reqs + 1
  /\ ended' = NoTick
  /\ UNCHANGED << nextId, clock, env, alive, sinceTick, ticks, hooks, sent >>

\* AlertDone deactivating whatever the payload and the reminder say.
AlertDoneDeactivating(store, id, isRecurring, is_recurring, now) ==
  deactivateReminder(updateLastAlertTime(store, id, now), id)

\* What the reminder-alert handler does once sendNotifications has returned.
AlertDone(store, id, isRecurring, is_recurring, now) ==
  LET stamped == updateLastAlertTime(store, id, now) IN
  IF ~isRecurring /\ ~is_recurring THEN deactivateReminder(stamped, id)
  ELSE stamped

\* What a reminder-alert handler holds across its await: the payload and
\* the fields of the reminder it loaded.
Hook(reminderId, isRecurring, reminder) ==
  [ id |-> reminderId, isRecurring |-> isRecurring,
    is_recurring |-> reminder.is_recurring, title |-> reminder.title,
    alerted |-> IsSet(reminder.last_alert_time) ]

\* POST /webhooks/reminder-alert with body {reminderId, isRecurring}; an
\* absent isRecurring is falsy.
webhookReminderAlertRoute(signature, reminderId, isRecurring) ==
  LET reminder == findById(db, reminderId) IN
  /\ IF ~verifyQStashSignature(signature)
     THEN /\ resp' = Resp(401, << "Invalid signature" >>)
          /\ UNCHANGED << db, hooks, sent >>
     ELSE IF reminder = NoRow
     THEN /\ resp' = Resp(200, << "skipped", "reminder_not_found" >>)
          /\ UNCHANGED << db, hooks, sent >>
     ELSE IF ~reminder.is_active
     THEN /\ resp' = Resp(200, << "skipped", "inactive" >>)
          /\ UNCHANGED << db, hooks, sent >>
     ELSE IF EmailContacts(reminder) # << >>
     THEN /\ BagCardinality(hooks) < MaxHooks
          /\ hooks' = hooks (+) SetToBag({ Hook(reminderId, isRecurring, reminder) })
          /\ sent' = [ sent EXCEPT ![reminderId] = Bump(@) ]
          /\ resp' = NoResp
          /\ UNCHANGED db
     ELSE /\ db' = AlertDone(db, reminderId, isRecurring, reminder.is_recurring, clock)
          /\ resp' = Resp(200, << "ok", reminder.title >>)
          /\ UNCHANGED << hooks, sent >>
  /\ reqs < MaxReqs
  /\ reqs' = reqs + 1
  /\ ended' = NoTick
  /\ UNCHANGED << nextId, clock, env, alive, sinceTick, ticks >>

\* sendNotifications returns to a suspended reminder-alert handler.
webhookReminderAlertResume(h) ==
  /\ BagIn(h, hooks)
  /\ hooks' = hooks (-) SetToBag({ h })
  /\ db' = AlertDone(db, h.id, h.isRecurring, h.is_recurring, clock)
  /\ resp' = Resp(200, << "ok", h.title >>)
  /\ ended' = NoTick
  /\ UNCHANGED << nextId, clock, env, alive, sinceTick, ticks, sent, reqs >>

\* ------------------------------------------------------------ the system
Next ==
  \/ Advance
  \/ \E r \in Bodies : createReminderRoute(r)
  \/ \E id \in Ids, r \in Bodies : updateReminderRoute(id, r)
  \/ \E id \in Ids : deleteReminderRoute(id)
  \/ \E idsParam \in BulkParams : deleteRemindersBulkRoute(idsParam)
  \/ checkReminders
  \/ \E t \in ticks : \E failed \in sendEmail(t.snap[t.i]) :
       checkRemindersResume(t, failed)
  \/ \E signature \in Signatures : webhookCleanupRoute(signature)
  \/ \E signature \in Signatures, id \in Ids, isRecurring \in BOOLEAN :
       webhookReminderAlertRoute(signature, id, isRecurring)
  \/ \E h \in BagToSet(hooks) : webhookReminderAlertResume(h)

Spec == Init /\ [][Next]_vars

\* ------------------------------------------- ticks at any spacing, in turn
\* The instants at which the timer's callback may run when the event loop
\* delays it or lets it catch up: consecutive calls less than an interval
\* apart.
FineInstants == { 55000, 56000, 57000, 58000, 59000, 116000, 117000 }

\* A recurring reminder with two alerts, next to those of Bodies.
SeqBodies ==
  { b \in Bodies : b.title \in { "cron", "cronEnd" } }
    \cup { Body("cronTwo", 0, <<"email">>, <<3000, 4000>>, TRUE,
                 Some(EveryMinute), Some(0), NULL, NULL) }

\* Time passes up to the instant the timer next calls back.
Jitter ==
  /\ \E t \in FineInstants :
       /\ t > clock
       /\ clock' = t
  /\ sinceTick' = SCHEDULER_INTERVAL
  /\ ended' = NoTick
  /\ resp' = NoResp
  /\ UNCHANGED << db, nextId, env, alive, ticks, hooks, sent, reqs >>

\* checkReminders called when no earlier call is in flight.
checkRemindersInTurn == ticks = {} /\ checkReminders

NextSeq ==
  \/ Jitter
  \/ \E r \in SeqBodies : createReminderRoute(r)
  \/ checkRemindersInTurn
  \/ \E t \in ticks : \E failed \in sendEmail(t.snap[t.i]) :
       checkRemindersResume(t, failed)

SpecSeq == Init /\ [][NextSeq]_vars

\* ------------------------------------------------ polling mode with updates
\* USE_POLLING: the timer drives checkReminders and no QStash callback
\* arrives; reminders are created and updated.
NextPoll ==
  \/ Advance
  \/ \E r \in Bodies : createReminderRoute(r)
  \/ \E id \in Ids, r \in Bodies : updateReminderRoute(id, r)
  \/ checkReminders
  \/ \E t \in ticks : \E failed \in sendEmail(t.snap[t.i]) :
       checkRemindersResume(t, failed)

SpecPoll == Init /\ [][NextPoll]_vars

\* ------------------------------------------------- polling until a signal
\* SIGTERM or SIGINT reaches the process.  index.ts registers no handler for
\* either, so the process ends at once: the calls suspended in a send are
\* gone with it and the timer calls checkReminders no more.
SIGTERM ==
  /\ alive
  /\ alive' = FALSE
  /\ ticks' = {}
  /\ hooks' = EmptyBag
  /\ ended' = NoTick
  /\ resp' = NoResp
  /\ UNCHANGED << db, nextId, clock, env, sinceTick, sent, reqs >>

NextStop ==
  \/ SIGTERM
  \/ alive /\ Advance
  \/ alive /\ \E r \in Bodies : createReminderRoute(r)
  \/ alive /\ checkReminders
  \/ alive /\ \E t \in ticks : \E failed \in sendEmail(t.snap[t.i]) :
                checkRemindersResume(t, failed)

SpecStop == Init /\ [][NextStop]_vars

\* ------------------------------------------------ punctual ticks, in turn
\* setInterval calling checkReminders at t0, t0 + SCHEDULER_INTERVAL,
\* t0 + 2 * SCHEDULER_INTERVAL, ..., each call returning before the next;
\* the reminders are created before the first call.
GridStarts == { 49000, 50000, 51000 }

\* The instant after which the timer is followed no further.
MaxClock == 63000

\* One-time reminders whose alerts fall in one tick each: alert instants
\* 51000 and 57000 for the two-alert bodies, 56000 for the others.
GridBodies ==
  { Body("twoMail", 60000, <<"email">>, <<3000, 9000>>, FALSE, NULL, NULL, NULL, NULL),
    Body("twoSms",  60000, <<"sms">>,   <<9000, 3000>>, FALSE, NULL, NULL, NULL, NULL),
    Body("oneMail", 60000, <<"email">>, <<4000>>,       FALSE, NULL, NULL, NULL, NULL),
    Body("silent",  60000, <<"sms">>,   <<4000>>,       FALSE, NULL, NULL, NULL, NULL) }

\* Time passes from one call of the timer's callback to the next.
Period ==
  /\ ticks = {}
  /\ IF clock = 0
     THEN clock' \in GridStarts
     ELSE /\ sinceTick = 0
          /\ clock' = clock + SCHEDULER_INTERVAL
          /\ clock' <= MaxClock
  /\ sinceTick' = SCHEDULER_INTERVAL
  /\ ended' = NoTick
  /\ resp' = NoResp
  /\ UNCHANGED << db, nextId, env, alive, ticks, hooks, sent, reqs >>

NextGrid ==
  \/ Period
  \/ clock = 0 /\ \E r \in GridBodies : createReminderRoute(r)
  \/ checkRemindersInTurn
  \/ \E t \in ticks : \E failed \in sendEmail(t.snap[t.i]) :
       checkRemindersResume(t, failed)

SpecGrid == Init /\ [][NextGrid]_vars

\* --------------------------------------------- either mode, run for ever
\* USE_POLLING || !QSTASH_TOKEN starts the timer; otherwise
\* ensureCleanupSchedule has QStash call POST /webhooks/cleanup on a cron
\* schedule and reminder-alert callbacks arrive.
LiveEnvs ==
  { [ development |-> FALSE, key |-> TRUE, polling |-> p ] : p \in BOOLEAN }

\* Instants up to one past the stale threshold of the one-time bodies at
\* which no alert of a recurring body is due: LastInstant stands for every
\* later instant.
LiveInstants == { 57000, 117000, 3717000, 3721000 }

LastInstant == 3721000

LiveBodies ==
  { b \in Bodies : b.title \in { "multi", "silent", "noAlerts", "cron" } }

InitLive ==
  /\ db = [ id \in Ids |-> NoRow ]
  /\ nextId = 1
  /\ clock = 0
  /\ env \in LiveEnvs
  /\ sinceTick = 0
  /\ ticks = {}
  /\ ended = NoTick
  /\ hooks = EmptyBag
  /\ sent = [ id \in Ids |-> 0 ]
  /\ reqs = 0
  /\ resp = NoResp
  /\ alive = TRUE

\* Time passes, without end.
Elapse ==
  /\ \E t \in LiveInstants :
       /\ t > clock \/ (t = clock /\ t = LastInstant)
       /\ clock' = t
       /\ sinceTick' = IF t = clock THEN SCHEDULER_INTERVAL
                       ELSE Min(sinceTick + (t - clock), SCHEDULER_INTERVAL)
  /\ ended' = NoTick
  /\ resp' = NoResp
  /\ UNCHANGED << db, nextId, env, alive, ticks, hooks, sent, reqs >>

\* The cleanup schedule's callback: POST /webhooks/cleanup, signed by QStash.
scheduledCleanup ==
  /\ verifyQStashSignature("good")
  /\ LET result == cleanupStaleReminders(db, clock) IN
     /\ db' = result.db
     /\ resp' = Resp(200, << "ok", result.deactivated, result.checked >>)
  /\ ended' = NoTick
  /\ UNCHANGED << nextId, clock, env, alive, sinceTick, ticks, hooks, sent, reqs >>

pollingTick == env.polling /\ checkReminders

pollingResume ==
  \E t \in ticks : \E failed \in sendEmail(t.snap[t.i]) :
    checkRemindersResume(t, failed)

eventSweep == ~env.polling /\ scheduledCleanup

NextLive ==
  \/ Elapse
  \/ \E r \in LiveBodies : createReminderRoute(r)
  \/ pollingTick
  \/ pollingResume
  \/ eventSweep
  \/ ~env.polling /\ \E id \in Ids, isRecurring \in BOOLEAN :
                       webhookReminderAlertRoute("good", id, isRecurring)
  \/ \E h \in BagToSet(hooks) : webhookReminderAlertResume(h)

\* Time passes, the timer keeps calling back, a send settles, and QStash
\* keeps delivering the cleanup schedule.
SpecLive ==
  /\ InitLive
  /\ [][NextLive]_vars
  /\ WF_vars(Elapse)
  /\ WF_vars(pollingTick)
  /\ WF_vars(pollingResume)
  /\ WF_vars(eventSweep)

\* ------------------------------------------- deletes next to the engine
\* Reminders are created and deleted while ticks and reminder-alert
\* callbacks run.  DelReqs DELETE and webhook requests are served: the
\* count of requests starts that far below its cap.
DelReqs == 2

DelBodies ==
  { b \in Bodies : b.title \in { "multi", "silent" } }

InitDel ==
  /\ db = [ id \in Ids |-> NoRow ]
  /\ nextId = 1
  /\ clock = 0
  /\ env \in Envs
  /\ sinceTick = 0
  /\ ticks = {}
  /\ ended = NoTick
  /\ hooks = EmptyBag
  /\ sent = [ id \in Ids |-> 0 ]
  /\ reqs = MaxReqs - DelReqs
  /\ resp = NoResp
  /\ alive = TRUE

NextDel ==
  \/ Advance
  \/ \E r \in DelBodies : createReminderRoute(r)
  \/ \E id \in Ids : deleteReminderRoute(id)
  \/ \E idsParam \in BulkParams : deleteRemindersBulkRoute(idsParam)
  \/ checkRemindersInTurn
  \/ \E t \in ticks : \E failed \in sendEmail(t.snap[t.i]) :
       checkRemindersResume(t, failed)
  \/ \E id \in Ids, isRecurring \in BOOLEAN :
       webhookReminderAlertRoute("good", id, isRecurring)
  \/ \E h \in BagToSet(hooks) : webhookReminderAlertResume(h)

SpecDel == InitDel /\ [][NextDel]_vars

\* ------------------------------------------------------------- properties
\* Positions of the events of one kind for one reminder in a tick's log.
Fires(log, id) == { k \in DOMAIN log : log[k].e = "fire" /\ log[k].id = id }

Acks(log, id) == { k \in DOMAIN log : log[k].e = "ack" /\ log[k].id = id }

SendsTo(log, id, c) ==
  { k \in DOMAIN log : log[k].e = "send" /\ log[k].id = id /\ log[k].k = c }

\* The logs of the ticks in flight and of the tick that has just returned.
TickLogs == { t.log : t \in ticks } \cup { ended.log }

\* A checkReminders call returned, or was ended by a rejected send, in the
\* last step.
TickEnded == ended.st # "none"

\* This step starts an engine operation: setInterval calls checkReminders,
\* or a request is served.
StartsOperation == sinceTick' < sinceTick \/ reqs' > reqs

OneTime(id) == db[id] # NoRow /\ db[id].is_recurring = 0

\* C1: once a one-time reminder has a stored lastAlertTime, no operation
\* that starts afterwards (tick, sweep or webhook trigger) dispatches for it.
C1_NoDispatchOnceAlerted ==
  [][ \A id \in Ids :
        ( /\ OneTime(id)
          /\ IsSet(db[id].last_alert_time)
          /\ StartsOperation )
        => sent'[id] <= sent[id] ]_vars

\* C2: with no CRUD update of it in between, a one-time reminder is
\* dispatched at most once over its whole life, whatever the interleaving of
\* ticks, webhook triggers and sweeps.
C2_OneTimeAtMostOnce ==
  \A id \in Ids : OneTime(id) => sent[id] <= 1

\* C3: an active one-time reminder without lastAlertTime whose date is more
\* than one hour before the instant of a tick is inactive when that tick
\* ends, and the tick has dispatched nothing for it.
C3_StaleOneTimeDeactivated ==
  TickEnded =>
    \A id \in Ids :
      LET r == ended.snap[id] IN
      ( /\ r # NoRow
        /\ r.is_active
        /\ ~r.is_recurring
        /\ ~IsSet(r.last_alert_time)
        /\ ended.now - r.date > STALE_THRESHOLD_MS )
      => id \notin ended.active /\ Fires(ended.log, id) = {}

\* C4: an active recurring reminder with an end date is inactive at the end
\* of the tick whose computed next occurrence is later than the end date,
\* and that tick has dispatched nothing for it.
C4_RecurringPastEndDeactivated ==
  TickEnded =>
    \A id \in Ids :
      LET r == ended.snap[id] IN
      ( /\ r # NoRow
        /\ r.is_active
        /\ r.is_recurring
        /\ IsSet(r.recurrence)
        /\ IsSet(r.end_date)
        /\ IsSet(calculateNextEventTime(r, ended.now))
        /\ Val(calculateNextEventTime(r, ended.now)) > Val(r.end_date) )
      => id \notin ended.active /\ Fires(ended.log, id) = {}

\* C5: a tick writes lastAlertTime of a reminder exactly when it dispatched
\* for it, after the dispatch to all its contacts and before the tick ends;
\* no tick dispatches for a reminder and ends without the write.
C5_WriteIffDispatched ==
  TickEnded =>
    \A id \in Ids :
      /\ Fires(ended.log, id) # {} <=> Acks(ended.log, id) # {}
      /\ \A a \in Acks(ended.log, id) :
           /\ \E f \in Fires(ended.log, id) : f < a
           /\ \A j \in DOMAIN EmailContacts(ended.snap[id]) :
                \E k \in SendsTo(ended.log, id, EmailContacts(ended.snap[id])[j]) :
                  k < a

\* C6: within one tick a reminder is fired at most once and each of its
\* email contacts gets at most one message, even when several of its alerts
\* are due.
C6_OncePerTick ==
  \A log \in TickLogs :
    \A k1, k2 \in DOMAIN log :
      ( /\ log[k1].e \in { "fire", "send" }
        /\ log[k1] = log[k2] )
      => k1 = k2

\* A tick has returned after firing a reminder of which two alerts were due,
\* with a message to each of its two email contacts.
C6_Witness ==
  /\ ended.st = "done"
  /\ \E id \in Ids :
       LET r == ended.snap[id] IN
       /\ r # NoRow
       /\ Len(r.alerts) > 1
       /\ \A k \in DOMAIN r.alerts :
            AlertPasses(r, r.alerts[k], r.date, ended.now, SCHEDULER_INTERVAL)
       /\ Fires(ended.log, id) # {}
       /\ Len(EmailContacts(r)) > 1
       /\ \A j \in DOMAIN EmailContacts(r) :
            SendsTo(ended.log, id, EmailContacts(r)[j]) # {}

\* C7: the cleanup sweep sends nothing and writes no lastAlertTime; the only
\* change it makes to a reminder is isActive from true to false.
C7_SweepOnlyDeactivates ==
  [][ (\E signature \in Signatures : webhookCleanupRoute(signature))
      => /\ sent' = sent
         /\ hooks' = hooks
         /\ ticks' = ticks
         /\ \A id \in Ids :
              IF db[id] = NoRow THEN db'[id] = NoRow
              ELSE \/ db'[id] = db[id]
                   \/ /\ db[id].is_active = 1
                      /\ db'[id] = [ db[id] EXCEPT !.is_active = 0 ] ]_vars

\* The sweep has just deactivated a reminder that carries a lastAlertTime.
C7_Witness ==
  /\ resp.status = 200
  /\ Len(resp.body) = 3
  /\ resp.body[2] >= 1
  /\ \E id \in Ids :
       /\ db[id] # NoRow
       /\ db[id].is_active = 0
       /\ IsSet(db[id].last_alert_time)

\* C8: a request to either webhook without a valid signature (a wrong
\* signature or no signature header) is answered 401, loads no reminder,
\* writes nothing to the store and dispatches nothing.
C8_UnsignedRejected ==
  [][ \A signature \in Signatures \ { "good" } :
        ( \/ webhookCleanupRoute(signature)
          \/ \E id \in Ids, isRecurring \in BOOLEAN :
               webhookReminderAlertRoute(signature, id, isRecurring) )
        => /\ resp'.status = 401
           /\ db' = db
           /\ sent' = sent
           /\ hooks' = hooks ]_vars

\* C9: a verified webhook trigger for an inactive reminder is answered
\* {status: skipped, reason: inactive}; it dispatches nothing and leaves the
\* store unchanged.
C9_InactiveSkipped ==
  [][ \A signature \in Signatures, id \in Ids, isRecurring \in BOOLEAN :
        ( /\ verifyQStashSignature(signature)
          /\ db[id] # NoRow
          /\ db[id].is_active = 0
          /\ webhookReminderAlertRoute(signature, id, isRecurring) )
        => /\ resp' = Resp(200, << "skipped", "inactive" >>)
           /\ db' = db
           /\ sent' = sent
           /\ hooks' = hooks
           /\ ticks' = ticks ]_vars

\* A trigger for a stored, inactive reminder has just been answered.
C9_Witness ==
  /\ resp.status = 200
  /\ Len(resp.body) = 2
  /\ resp.body[2] = "inactive"
  /\ \E id \in Ids : db[id] # NoRow /\ db[id].is_active = 0

\* C10: a verified webhook trigger for a reminderId the store does not hold
\* is answered {status: skipped, reason: reminder_not_found}; it dispatches
\* nothing and leaves every stored reminder unchanged.
C10_UnknownSkipped ==
  [][ \A signature \in Signatures, id \in Ids, isRecurring \in BOOLEAN :
        ( /\ verifyQStashSignature(signature)
          /\ db[id] = NoRow
          /\ webhookReminderAlertRoute(signature, id, isRecurring) )
        => /\ resp' = Resp(200, << "skipped", "reminder_not_found" >>)
           /\ db' = db
           /\ sent' = sent
           /\ hooks' = hooks
           /\ ticks' = ticks ]_vars

\* A trigger for an unknown id has just been answered while the store holds
\* an active reminder.
C10_Witness ==
  /\ resp.status = 200
  /\ Len(resp.body) = 2
  /\ resp.body[2] = "reminder_not_found"
  /\ \E id \in Ids : db[id] # NoRow /\ db[id].is_active = 1

\* C11: a verified webhook trigger for an active reminder dispatches to its
\* contacts, then sets lastAlertTime, then deactivates the reminder exactly
\* when the payload's isRecurring is false or absent and the reminder is not
\* recurring; a recurring reminder keeps its isActive; the response is
\* {status: ok, reminderTitle}.
C11_TriggerFires ==
  [][ /\ \A signature \in Signatures, id \in Ids, isRecurring \in BOOLEAN :
           ( /\ verifyQStashSignature(signature)
             /\ db[id] # NoRow
             /\ db[id].is_active = 1
             /\ webhookReminderAlertRoute(signature, id, isRecurring) )
           => IF EmailContacts(db[id]) # << >>
              THEN /\ BagCardinality(hooks') = BagCardinality(hooks) + 1
                   /\ sent'[id] = Bump(sent[id])
                   /\ db' = db
              ELSE /\ resp' = Resp(200, << "ok", db[id].title >>)
                   /\ db'[id] =
                        [ db[id] EXCEPT
                            !.last_alert_time = Some(clock),
                            !.is_active =
                              IF ~isRecurring /\ db[id].is_recurring = 0
                              THEN 0 ELSE 1 ]
      /\ \A h \in BagToSet(hooks) :
           ( /\ webhookReminderAlertResume(h)
             /\ db[h.id] # NoRow )
           => /\ resp' = Resp(200, << "ok", h.title >>)
              /\ BagCardinality(hooks') = BagCardinality(hooks) - 1
              /\ db'[h.id] =
                   [ db[h.id] EXCEPT
                       !.last_alert_time = Some(clock),
                       !.is_active =
                         IF ~h.isRecurring /\ ~h.is_recurring
                         THEN 0 ELSE db[h.id].is_active ] ]_vars

\* A trigger has just been answered ok for a recurring reminder, which is
\* stamped with the instant of the answer and still active.
C11_Witness ==
  /\ resp.status = 200
  /\ Len(resp.body) = 2
  /\ resp.body[1] = "ok"
  /\ \E id \in Ids :
       /\ db[id] # NoRow
       /\ db[id].title = resp.body[2]
       /\ db[id].is_recurring = 1
       /\ db[id].is_active = 1
       /\ db[id].last_alert_time = Some(clock)
       /\ sent[id] >= 1

\* C12: a reminder with an alert offset below 3000 ms is rejected at
\* creation, so every stored reminder has all its alert offsets >= 3000.
C12_StoredAlertsAtLeastFloor ==
  \A id \in Ids :
    db[id] # NoRow =>
      \A k \in DOMAIN db[id].alerts : AlertSchema(db[id].alerts[k])

\* C13: in polling mode at most one tick executes at any time: the timer
\* starts no tick while a previous tick is still awaiting a send.
C13_NoTickOverlap ==
  [][ ticks # {} => sinceTick' >= sinceTick ]_vars

\* C14: the stored lastAlertTime of a reminder never decreases: each write
\* is >= the value it replaces.
C14_LastAlertTimeMonotone ==
  [][ \A id \in Ids :
        ( /\ db[id] # NoRow
          /\ db'[id] # NoRow
          /\ IsSet(db[id].last_alert_time) )
        => /\ IsSet(db'[id].last_alert_time)
           /\ Val(db'[id].last_alert_time) >= Val(db[id].last_alert_time) ]_vars

\* C15: in every reachable store state every reminder with isRecurring true
\* has a non-null recurrence and a non-null startDate.
C15_RecurringHasSchedule ==
  \A id \in Ids :
    (db[id] # NoRow /\ db[id].is_recurring = 1)
      => IsSet(db[id].recurrence) /\ IsSet(db[id].start_date)

\* A step of the engine: the polling tick, the cleanup sweep or a webhook
\* trigger, from its start or resuming after a send.
EngineStep ==
  \/ checkReminders
  \/ \E t \in ticks : \E failed \in sendEmail(t.snap[t.i]) :
       checkRemindersResume(t, failed)
  \/ \E signature \in Signatures : webhookCleanupRoute(signature)
  \/ \E signature \in Signatures, id \in Ids, isRecurring \in BOOLEAN :
       webhookReminderAlertRoute(signature, id, isRecurring)
  \/ \E h \in BagToSet(hooks) : webhookReminderAlertResume(h)

\* C16: engine operations change only lastAlertTime and isActive of
\* reminders: they create and delete no reminder and leave every other
\* field as it was.
C16_EngineWritesOnlyCursor ==
  [][ EngineStep =>
        /\ nextId' = nextId
        /\ \A id \in Ids :
             IF db[id] = NoRow THEN db'[id] = NoRow
             ELSE /\ db'[id] # NoRow
                  /\ db'[id] =
                       [ db[id] EXCEPT
                           !.last_alert_time = db'[id].last_alert_time,
                           !.is_active = db'[id].is_active ] ]_vars

\* A tick has just returned after firing a reminder, whose lastAlertTime is
\* the instant of the tick, and after deactivating another.
C16_Witness ==
  /\ ended.st = "done"
  /\ \E id \in Ids :
       /\ Acks(ended.log, id) # {}
       /\ db[id] # NoRow
       /\ db[id].last_alert_time = Some(ended.now)
  /\ \E id \in Ids :
       /\ \E k \in DOMAIN ended.log :
            ended.log[k].e = "off" /\ ended.log[k].id = id
       /\ db[id] # NoRow
       /\ db[id].is_active = 0

\* C17: when a send to one contact fails during a fire, the remaining
\* contacts of the reminder are still attempted, the fire is not aborted
\* and lastAlertTime is still written for the reminder.
C17_FailedSendStillAcknowledged ==
  TickEnded =>
    \A id \in Ids :
      Fires(ended.log, id) # {} =>
        /\ \A j \in DOMAIN EmailContacts(ended.snap[id]) :
             SendsTo(ended.log, id, EmailContacts(ended.snap[id])[j]) # {}
        /\ Acks(ended.log, id) # {}

\* The tick that has ended went through reminder id of its list: it ran to
\* the end of the list, or the fire that ended it was for a later reminder.
Reached(id) ==
  \/ ended.st = "done"
  \/ /\ Len(ended.log) > 0
     /\ id <= ended.log[Len(ended.log)].id

\* C18: a fault raised while a tick processes one reminder skips only that
\* reminder: every later reminder of the tick's list is still processed in
\* that tick.
C18_FaultSkipsOnlyOne ==
  TickEnded =>
    \A id \in Ids : ended.snap[id] # NoRow => Reached(id)

\* C19: deleteBulk(ids) removes exactly the stored reminders whose id is in
\* ids, returns the number of reminders removed (ids without a reminder are
\* not counted) and leaves the others unchanged; afterwards findById returns
\* null for every id in ids.
C19_DeleteBulkExact ==
  [][ \A idsParam \in BulkParams :
        ( /\ IsSet(idsParam)
          /\ ToString(resp'.body) = ToString(<< "success" >>)
          /\ deleteRemindersBulkRoute(idsParam) )
        => LET ids == Val(idsParam)
               named == { ids[k] : k \in DOMAIN ids }
           IN /\ \A id \in Ids :
                   db'[id] = IF id \in named THEN NoRow ELSE db[id]
              /\ deleteBulk(db, ids).changes =
                   Cardinality({ id \in named : db[id] # NoRow })
              /\ \A id \in named : findById(db', id) = NoRow ]_vars

\* A bulk delete has just succeeded; it removed a reminder and left another.
C19_Witness ==
  /\ resp.status = 200
  /\ ToString(resp.body) = ToString(<< "success" >>)
  /\ \E id \in Ids : id < nextId /\ db[id] = NoRow
  /\ \E id \in Ids : db[id] # NoRow

\* C20: create stores a new reminder under an id no stored reminder has,
\* with lastAlertTime null and with isActive true unless the input sets
\* is_active to false; the reminders already stored are unchanged.
C20_CreateStoresFresh ==
  [][ \A r \in Bodies :
        ( /\ createReminderRoute(r)
          /\ resp'.status = 201 )
        => \E id \in Ids :
             /\ db[id] = NoRow
             /\ db'[id] # NoRow
             /\ db'[id].last_alert_time = NULL
             /\ db'[id].is_active = (IF r.is_active = Some(FALSE) THEN 0 ELSE 1)
             /\ \A other \in Ids \ { id } : db'[other] = db[other] ]_vars

\* A create has just stored a reminder whose input did not set is_active,
\* active, next to one stored before.
C20_Witness ==
  /\ resp.status = 201
  /\ db[resp.body[1]] # NoRow
  /\ db[resp.body[1]].is_active = 1
  /\ db[resp.body[1]].last_alert_time = NULL
  /\ \E other \in Ids : other # resp.body[1] /\ db[other] # NoRow

\* The occurrence a tick that started at now computes for a recurring
\* reminder of its list.
Occurrence(reminder, now) == Val(calculateNextEventTime(reminder, now))

\* C21: under polling a recurring reminder with startDate S and endDate E is
\* dispatched only for occurrences inside the recurrence window: no tick
\* fires it for an occurrence earlier than S or later than E.
C21_DispatchInsideWindow ==
  \A log \in TickLogs :
    \A now \in Instants, id \in Ids :
      LET runs == { t \in ticks : t.now = now /\ t.log = log }
          snaps == { t.snap : t \in runs }
                     \cup (IF ended.now = now /\ ended.log = log
                           THEN { ended.snap } ELSE {})
      IN \A snap \in snaps :
           ( /\ Fires(log, id) # {}
             /\ snap[id].is_recurring
             /\ IsSet(snap[id].recurrence) )
           => /\ IsSet(snap[id].start_date)
                   => Occurrence(snap[id], now) >= Val(snap[id].start_date)
              /\ IsSet(snap[id].end_date)
                   => Occurrence(snap[id], now) <= Val(snap[id].end_date)

Offs(log, id) == { k \in DOMAIN log : log[k].e = "off" /\ log[k].id = id }

\* C22: two-phase retirement under polling: the tick that fires a one-time
\* reminder acknowledges it without deactivating it, and the next tick that
\* gets to it, finding lastAlertTime set, deactivates it and dispatches
\* nothing for it.
C22_TwoPhaseRetirement ==
  TickEnded =>
    \A id \in Ids :
      LET r == ended.snap[id] IN
      /\ ( /\ r # NoRow
           /\ ~r.is_recurring
           /\ Fires(ended.log, id) # {} )
         => Offs(ended.log, id) = {}
      /\ ( /\ r # NoRow
           /\ r.is_active
           /\ ~r.is_recurring
           /\ Len(r.alerts) > 0
           /\ IsSet(r.last_alert_time)
           /\ Reached(id) )
         => /\ Offs(ended.log, id) # {}
            /\ Fires(ended.log, id) = {}

\* A tick at 57000 fired a one-time reminder and left it active; a later
\* tick has just returned after deactivating it.
C22_Witness ==
  /\ ended.st = "done"
  /\ ended.now > 57000
  /\ \E id \in Ids :
       /\ ended.snap[id] # NoRow
       /\ ~ended.snap[id].is_recurring
       /\ ended.snap[id].is_active
       /\ ended.snap[id].last_alert_time = Some(57000)
       /\ Offs(ended.log, id) # {}
       /\ sent[id] >= 1
       /\ db[id] # NoRow
       /\ db[id].is_active = 0

\* The event time a tick that started at now uses for a reminder of its
\* list: the computed occurrence when it is recurring, else its date.
EventTime(reminder, now) ==
  IF reminder.is_recurring /\ IsSet(reminder.recurrence)
  THEN Occurrence(reminder, now)
  ELSE reminder.date

\* now - (eventTime - offset) for each alert of the reminder.
Diffs(reminder, now) ==
  { now - (EventTime(reminder, now) - reminder.alerts[k]) :
      k \in DOMAIN reminder.alerts }

Due(diff) == 0 <= diff /\ diff < SCHEDULER_INTERVAL

\* The runs of checkReminders in flight or just ended, as << now, list, log >>.
TickRuns ==
  { << t.now, t.snap, t.log >> : t \in ticks }
    \cup { << ended.now, ended.snap, ended.log >> }

\* C23: a polling tick dispatches for a reminder only if some alert of it
\* has 0 <= now - (eventTime - offset) < tickInterval; a tick that gets to a
\* fresh one-time reminder with such an alert does dispatch.  A diff of 0 is
\* due, a diff equal to tickInterval is not, a negative diff is not.
C23_DueWindow ==
  /\ \A run \in TickRuns : \A id \in Ids :
       Fires(run[3], id) # {} =>
         \E diff \in Diffs(run[2][id], run[1]) : Due(diff)
  /\ TickEnded =>
       \A id \in Ids :
         LET r == ended.snap[id] IN
         ( /\ r # NoRow
           /\ r.is_active
           /\ ~r.is_recurring
           /\ ~shouldDeactivateOneTime(r, ended.now)
           /\ Reached(id)
           /\ \E diff \in Diffs(r, ended.now) : Due(diff) )
         => Fires(ended.log, id) # {}

\* A tick has just returned without firing an active, fresh one-time
\* reminder whose only alert has a diff equal to the tick interval.
C23_Witness ==
  /\ ended.st = "done"
  /\ \E id \in Ids :
       LET r == ended.snap[id] IN
       /\ r # NoRow
       /\ r.is_active
       /\ ~r.is_recurring
       /\ ~shouldDeactivateOneTime(r, ended.now)
       /\ Diffs(r, ended.now) = { SCHEDULER_INTERVAL }
       /\ Fires(ended.log, id) = {}

\* The alert instant a tick that started at now selects for a reminder of
\* its list that it fires.
FiredInstant(reminder, now) ==
  EventTime(reminder, now)
    - getAlertsToFire(reminder, EventTime(reminder, now), now, SCHEDULER_INTERVAL)[1]

\* C24: of two ticks that run one after the other, the second starting after
\* the first wrote lastAlertTime, at most one dispatches for a given alert
\* instant of a given occurrence of a recurring reminder, however close the
\* two ticks are: the alert instant the second fires was not due at the
\* instant lastAlertTime of the first.
C24_NoRepeatForOccurrence ==
  \A run \in TickRuns : \A id \in Ids :
    LET now == run[1]
        r == run[2][id]
    IN ( /\ Fires(run[3], id) # {}
         /\ r.is_recurring
         /\ IsSet(r.recurrence)
         /\ IsSet(r.last_alert_time)
         /\ Occurrence(r, Val(r.last_alert_time)) = Occurrence(r, now) )
       => ~Due(Val(r.last_alert_time) - FiredInstant(r, now))

\* A tick has just returned that started less than an interval after the
\* tick that wrote lastAlertTime, within the same occurrence and with an
\* alert that was due at both instants; it fired the reminder for its other
\* alert instant.
C24_Witness ==
  /\ ended.st = "done"
  /\ \E id \in Ids :
       LET r == ended.snap[id] IN
       /\ r # NoRow
       /\ r.is_recurring
       /\ IsSet(r.last_alert_time)
       /\ ended.now - Val(r.last_alert_time) < SCHEDULER_INTERVAL
       /\ Occurrence(r, Val(r.last_alert_time)) = Occurrence(r, ended.now)
       /\ \E k \in DOMAIN r.alerts :
            /\ Due(Val(r.last_alert_time) - (Occurrence(r, ended.now) - r.alerts[k]))
            /\ Due(ended.now - (Occurrence(r, ended.now) - r.alerts[k]))
       /\ Fires(ended.log, id) # {}

\* The reminders a checkReminders call starting on this store at instant now
\* deactivates.
TickDeactivated(store, now) ==
  { id \in Ids :
      Offs(RunTick(getReminders(store), now, id, store, << >>).log, id) # {} }

\* The reminders cleanupStaleReminders deactivates on this store at instant
\* now.
SweepDeactivated(store, now) ==
  { id \in Ids : cleanupStaleReminders(store, now).db[id] # store[id] }

\* C25: run on the same store state at the same instant, the cleanup sweep
\* deactivates exactly the reminders a polling tick would deactivate.
C25_SweepMatchesTick ==
  SweepDeactivated(db, clock) = TickDeactivated(db, clock)

\* C26: a cleanup sweep returns checked = the number of reminders active
\* when it started and deactivated = the number it switched to inactive, so
\* 0 <= deactivated <= checked, and the reminders active afterwards are the
\* previously active ones minus the deactivated ones.
C26_SweepCounts ==
  [][ \A signature \in Signatures :
        ( /\ verifyQStashSignature(signature)
          /\ webhookCleanupRoute(signature) )
        => LET before == ActiveIds(db)
               after == ActiveIds(db')
               switched == before \ after
           IN /\ resp'.status = 200
              /\ Len(resp'.body) = 3
              /\ resp'.body[1] = "ok"
              /\ resp'.body[3] = Cardinality(before)
              /\ resp'.body[2] = Cardinality(switched)
              /\ 0 <= resp'.body[2]
              /\ resp'.body[2] <= resp'.body[3]
              /\ after \subseteq before
              /\ \A id \in switched : db'[id] # NoRow /\ db'[id].is_active = 0 ]_vars

\* A sweep has just answered that it checked two reminders and deactivated
\* one of them; one reminder is still active.
C26_Witness ==
  /\ resp.status = 200
  /\ Len(resp.body) = 3
  /\ resp.body[2] = 1
  /\ resp.body[3] = 2
  /\ Cardinality(ActiveIds(db)) = 1

\* C27: a polling tick and a cleanup sweep ignore every reminder that is
\* inactive when they read the store: they dispatch nothing for it and write
\* neither its lastAlertTime nor its isActive.
C27_InactiveIgnored ==
  [][ /\ checkReminders =>
           \A id \in Ids :
             (db[id] # NoRow /\ db[id].is_active = 0)
               => db'[id] = db[id] /\ sent'[id] = sent[id]
      /\ \A t \in ticks : \A failed \in sendEmail(t.snap[t.i]) :
           checkRemindersResume(t, failed) =>
             \A id \in Ids :
               (t.snap[id] # NoRow /\ ~t.snap[id].is_active)
                 => /\ db'[id] = db[id]
                    /\ sent'[id] = sent[id]
                    /\ \A run \in TickRuns' : run[1] = t.now =>
                         \A k \in DOMAIN run[3] : run[3][k].id # id
      /\ \A signature \in Signatures :
           webhookCleanupRoute(signature) =>
             \A id \in Ids :
               (db[id] # NoRow /\ db[id].is_active = 0)
                 => db'[id] = db[id] /\ sent'[id] = sent[id] ]_vars

\* A tick has just returned after firing one reminder and passing over an
\* inactive one whose alert was due at the tick's instant; that reminder is
\* as it was created.
C27_Witness ==
  /\ ended.st = "done"
  /\ \E id \in Ids : Acks(ended.log, id) # {}
  /\ \E id \in Ids :
       LET r == ended.snap[id] IN
       /\ r # NoRow
       /\ ~r.is_active
       /\ ~r.is_recurring
       /\ \E diff \in Diffs(r, ended.now) : Due(diff)
       /\ \A k \in DOMAIN ended.log : ended.log[k].id # id
       /\ db[id] # NoRow
       /\ transformRow(db[id]) = r
       /\ sent[id] = 0

\* C28: a polling tick silently skips every reminder whose alerts list is
\* empty: it dispatches nothing for it and writes neither its lastAlertTime
\* nor its isActive.
C28_EmptyAlertsSkipped ==
  [][ /\ checkReminders =>
           \A id \in Ids :
             (db[id] # NoRow /\ Len(db[id].alerts) = 0)
               => db'[id] = db[id] /\ sent'[id] = sent[id]
      /\ \A t \in ticks : \A failed \in sendEmail(t.snap[t.i]) :
           checkRemindersResume(t, failed) =>
             \A id \in Ids :
               (t.snap[id] # NoRow /\ Len(t.snap[id].alerts) = 0)
                 => /\ db'[id] = db[id]
                    /\ sent'[id] = sent[id]
                    /\ \A run \in TickRuns' : run[1] = t.now =>
                         \A k \in DOMAIN run[3] : run[3][k].id # id ]_vars

\* A tick has just returned that passed over an active one-time reminder
\* without alerts, more than an hour after its date; the reminder is still
\* active and was never dispatched.
C28_Witness ==
  /\ ended.st = "done"
  /\ \E id \in Ids :
       LET r == ended.snap[id] IN
       /\ r # NoRow
       /\ r.is_active
       /\ Len(r.alerts) = 0
       /\ shouldDeactivateOneTime(r, ended.now)
       /\ \A k \in DOMAIN ended.log : ended.log[k].id # id
       /\ db[id] # NoRow
       /\ db[id].is_active = 1
       /\ sent[id] = 0

\* A loaded recurring reminder whose cron expression does not parse.
Unparsable(r) ==
  /\ r # NoRow
  /\ r.is_recurring
  /\ IsSet(r.recurrence)
  /\ CronPeriod(Val(r.recurrence)) = 0

\* C29: when the cron expression of a recurring reminder cannot be parsed, a
\* polling tick and a cleanup sweep skip that reminder: it is neither
\* deactivated nor dispatched and its stored fields are unchanged, and the
\* reminders after it are still processed.
C29_UnparsableSkipped ==
  [][ /\ checkReminders =>
           \A id \in Ids :
             Unparsable(findById(db, id)) => db'[id] = db[id] /\ sent'[id] = sent[id]
      /\ \A t \in ticks : \A failed \in sendEmail(t.snap[t.i]) :
           checkRemindersResume(t, failed) =>
             \A id \in Ids :
               Unparsable(t.snap[id])
                 => /\ db'[id] = db[id]
                    /\ sent'[id] = sent[id]
                    /\ \A run \in TickRuns' : run[1] = t.now =>
                         \A k \in DOMAIN run[3] : run[3][k].id # id
      /\ \A signature \in Signatures :
           webhookCleanupRoute(signature) =>
             /\ \A id \in Ids :
                  Unparsable(findById(db, id)) => db'[id] = db[id] /\ sent'[id] = sent[id]
             /\ verifyQStashSignature(signature) =>
                  \A id \in ActiveIds(db) :
                    ( /\ ~Unparsable(findById(db, id))
                      /\ SweepDeactivates(findById(db, id), clock) )
                    => db'[id].is_active = 0
      /\ (TickEnded' /\ ended' # ended) =>
           \A id \in Ids :
             (Unparsable(ended'.snap[id]) /\ Reached(id)')
               => \A later \in Ids : later > id => Reached(later)' ]_vars

\* A tick has just returned that passed over an active recurring reminder
\* with an unparsable expression, which is as it was, and fired the reminder
\* after it in its list.
C29_Witness ==
  /\ ended.st = "done"
  /\ \E id \in Ids :
       /\ Unparsable(ended.snap[id])
       /\ ended.snap[id].is_active
       /\ \A k \in DOMAIN ended.log : ended.log[k].id # id
       /\ db[id] # NoRow
       /\ transformRow(db[id]) = ended.snap[id]
       /\ \E later \in Ids : later > id /\ Acks(ended.log, later) # {}

\* A tick, a sweep or a webhook trigger starts in this step.
EngineStart ==
  \/ checkReminders
  \/ \E signature \in Signatures : webhookCleanupRoute(signature)
  \/ \E signature \in Signatures, id \in Ids, isRecurring \in BOOLEAN :
       webhookReminderAlertRoute(signature, id, isRecurring)

C31_GracefulShutdown ==
  [][ /\ \A t \in ticks :
           (\A u \in ticks' : u.now # t.now)
             => ended'.st # "none" /\ ended'.now = t.now
      /\ ~alive => \A u \in ticks' : \E t \in ticks : u.now = t.now ]_vars

\* The sendEmail calls a tick's log holds for one reminder, in order.
SendsOf(log, id) ==
  SelectSeq(log, LAMBDA ev : ev.e = "send" /\ ev.id = id)

\* C32: one fire of a reminder makes exactly one send attempt per contact
\* whose mode is email, in the order of the contacts list; contacts of
\* another mode cause no send.
C32_OneSendPerEmailContact ==
  TickEnded =>
    \A id \in Ids :
      Fires(ended.log, id) # {} =>
        LET emails == EmailContacts(ended.snap[id]) IN
        SendsOf(ended.log, id) =
          [ k \in 1 .. Len(emails) |-> Ev("send", id, emails[k]) ]

\* C33: deactivate(id) is idempotent: applied twice it leaves the store as
\* applied once; it changes no field other than isActive of reminder id; on
\* an id that is not stored it changes nothing.
C33_DeactivateIdempotent ==
  \A id \in Ids :
    LET once == deactivateReminder(db, id)
        twice == deactivateReminder(once, id)
    IN /\ twice = once
       /\ \A other \in Ids \ { id } : once[other] = db[other]
       /\ IF db[id] = NoRow THEN once = db
          ELSE once[id] = [ db[id] EXCEPT !.is_active = 0 ]

\* A tick has just returned after deactivating a reminder that carries a
\* lastAlertTime, next to an active reminder.
C33_Witness ==
  /\ ended.st = "done"
  /\ \E id \in Ids :
       /\ Offs(ended.log, id) # {}
       /\ db[id] # NoRow
       /\ db[id].is_active = 0
       /\ IsSet(db[id].last_alert_time)
       /\ \E other \in Ids : db[other] # NoRow /\ db[other].is_active = 1

\* C34: no engine operation (polling tick, cleanup sweep, webhook trigger)
\* changes isActive from false to true: once a reminder is inactive, only a
\* CRUD update makes it active again.
C34_EngineNeverActivates ==
  [][ /\ EngineStep => ActiveIds(db') \subseteq ActiveIds(db)
      /\ \A id \in Ids :
           ( /\ db[id] # NoRow
             /\ db[id].is_active = 0
             /\ id \in ActiveIds(db') )
           => \E r \in Bodies : updateReminderRoute(id, r) ]_vars

\* A trigger for a recurring reminder has just been answered after a tick
\* deactivated the reminder during its send: the reminder is stamped with
\* the instant of the answer and still inactive.
C34_Witness ==
  /\ resp.status = 200
  /\ Len(resp.body) = 2
  /\ resp.body[1] = "ok"
  /\ \E id \in Ids :
       /\ db[id] # NoRow
       /\ db[id].title = resp.body[2]
       /\ db[id].is_recurring = 1
       /\ db[id].is_active = 0
       /\ db[id].last_alert_time = Some(clock)

\* An update whose body omits is_active leaves the reminder active with the
\* lastAlertTime it had.
UpdateKeepsAck ==
  \A id \in Ids, r \in Bodies :
    ( /\ db[id] # NoRow
      /\ ~IsSet(r.is_active)
      /\ ToString(resp'.body) = ToString(<< id >>)
      /\ updateReminderRoute(id, r) )
    => /\ db'[id].is_active = 1
       /\ db'[id].last_alert_time = db[id].last_alert_time

LargestOffset(reminder) ==
  CHOOSE o \in { reminder.alerts[k] : k \in DOMAIN reminder.alerts } :
    \A k \in DOMAIN reminder.alerts : reminder.alerts[k] <= o

\* C36: with punctual ticks in turn, a one-time reminder with several
\* alerts whose instants fall in different ticks is dispatched only by the
\* tick whose window holds the earliest instant (largest offset): no tick
\* dispatches for a later alert.
C36_OnlyEarliestAlertDispatched ==
  \A run \in TickRuns : \A id \in Ids :
    LET reminder == run[2][id] IN
    ( /\ reminder # NoRow
      /\ ~reminder.is_recurring
      /\ Len(reminder.alerts) > 1
      /\ Fires(run[3], id) # {} )
    => Due(run[1] - (reminder.date - LargestOffset(reminder)))

\* C37: with ticks at t0, t0 + I, t0 + 2I, ..., each returning before the
\* next, an active one-time reminder with lastAlertTime unset and a single
\* alert at instant a >= t0 is dispatched by the tick with
\* a <= now < a + I, and by no other tick.
C37_SingleAlertExactlyOneTick ==
  /\ \A run \in TickRuns : \A id \in Ids :
       LET reminder == run[2][id] IN
       ( /\ reminder # NoRow
         /\ ~reminder.is_recurring
         /\ Len(reminder.alerts) = 1
         /\ Fires(run[3], id) # {} )
       => Due(run[1] - (reminder.date - reminder.alerts[1]))
  /\ TickEnded =>
       \A id \in Ids :
         LET reminder == ended.snap[id] IN
         ( /\ reminder # NoRow
           /\ reminder.is_active
           /\ ~reminder.is_recurring
           /\ ~IsSet(reminder.last_alert_time)
           /\ Len(reminder.alerts) = 1
           /\ Due(ended.now - (reminder.date - reminder.alerts[1])) )
         => Fires(ended.log, id) # {}

C39_IdsNeverReused ==
  [][ /\ nextId' >= nextId
      /\ \A id \in Ids : id >= nextId => db[id] = NoRow
      /\ \A id \in Ids :
           (db[id] = NoRow /\ db'[id] # NoRow)
           => (id = nextId /\ nextId' = id + 1)
      /\ \A id \in Ids, isRecurring \in BOOLEAN :
           ( /\ id < nextId
             /\ db[id] = NoRow
             /\ webhookReminderAlertRoute("good", id, isRecurring) )
           => /\ resp' = Resp(200, << "skipped", "reminder_not_found" >>)
              /\ db' = db
              /\ sent' = sent
              /\ hooks' = hooks ]_vars

\* A callback for the deleted reminder 1 has just been answered
\* reminder_not_found while the store holds reminder 2, created after the
\* delete or before it.
C39_Witness ==
  /\ resp.status = 200
  /\ Len(resp.body) = 2
  /\ resp.body[2] = "reminder_not_found"
  /\ nextId = 3
  /\ db[1] = NoRow
  /\ db[2] # NoRow

\* C40: a reminder deleted while a tick or a reminder-alert handler that
\* loaded it is in flight stays deleted.  No step gives a row to an id that
\* was assigned and deleted; a handler that resumes after its reminder was
\* deleted leaves the store as it is, and a tick that resumes after the
\* reminder it fired was deleted writes nothing for that id.
C40_DeletedStaysDeleted ==
  [][ /\ \A id \in Ids :
           (id < nextId /\ db[id] = NoRow) => db'[id] = NoRow
      /\ \A h \in BagToSet(hooks) :
           (db[h.id] = NoRow /\ webhookReminderAlertResume(h)) => db' = db
      /\ \A t \in ticks : \A failed \in sendEmail(t.snap[t.i]) :
           (db[t.i] = NoRow /\ checkRemindersResume(t, failed))
           => /\ db'[t.i] = NoRow
              /\ \A id \in Ids :
                   db'[id] # db[id] => (id > t.i /\ failed = 0) ]_vars

\* A reminder-alert handler has just answered for reminder 1, the only
\* reminder ever created, which was deleted while the handler was sending.
C40_Witness ==
  /\ resp.status = 200
  /\ Len(resp.body) = 2
  /\ resp.body[1] = "ok"
  /\ nextId = 2
  /\ db[1] = NoRow

====
